---- MODULE Spec2Model ----
(***************************************************************************)
(* Model of async/examples/web_crawler.py: a bounded asyncio link crawler. *)
(* One coordinator task (Crawler.run) and num_workers worker tasks share   *)
(* an unbounded asyncio.Queue (todo), the sets seen and done and the       *)
(* counter total.  asyncio runs one task at a time; a task gives up the    *)
(* event loop only at an await that really suspends.  The variable cur     *)
(* names the task that holds the event loop (NoTask between callbacks).    *)
(***************************************************************************)
EXTENDS Integers, Sequences, FiniteSets, TLC

\* ------------------------------------------------------------------ bounds
MaxWorkers == 2
MaxLimit == 3

\* ------------------------------------------------------------- addresses
\* A URL as urllib.parse.urlparse splits it.  The path is kept as the pair
\* (name, ext) that pathlib.Path(path).suffix separates.
Url(s, n, p, e, f) == [scheme |-> s, netloc |-> n, name |-> p, ext |-> e, frag |-> f]

Local(p) == Url("http", "localhost", p, ".html", "")
A == Local("/a")
B == Local("/b")
C == Local("/c")
D == Local("/d")
E == Local("/e")
\* addresses outside the allow-lists of main()
X == Url("http", "evil.example", "/x", ".html", "")
XD == Url("http", "evil.example", "/d", ".html", "")
F == Url("ftp", "localhost", "/f", ".html", "")
P == Url("http", "localhost", "/p", ".png", "")

\* hrefs as they stand in a document: relative, with fragments, protocol-relative
Rel(p) == Url("", "", p, ".html", "")
RelFrag(p, f) == Url("", "", p, ".html", f)
FragOnly(f) == Url("", "", "", "", f)
ProtoRel(n, p) == Url("", n, p, ".html", "")
RelPng(p) == Url("", "", p, ".png", "")

AllUrls == {A, B, C, D, E, X, XD, F, P}

\* ---------------------------------------------------------- UrlFilterer
\* Optional[set[str]]: isNone marks None (no restriction)
Some(S) == [isNone |-> FALSE, val |-> S]

allowed_domains == Some({"192.168.254.109:2368", "localhost"})
allowed_schemes == Some({"http", "https"})
allowed_filetypes == Some({".html", ".php", ""})

\* urllib.parse.urljoin(base, url)
urljoin(base, url) ==
    IF url.scheme # "" THEN url
    ELSE IF url.netloc # "" THEN [url EXCEPT !.scheme = base.scheme]
    ELSE IF url.name # "" THEN [url EXCEPT !.scheme = base.scheme, !.netloc = base.netloc]
    ELSE [base EXCEPT !.frag = url.frag]

\* urllib.parse.urldefrag(url)[0]
urldefrag(url) == [url EXCEPT !.frag = ""]

\* pathlib.Path(parsed.path).suffix
suffix(url) == url.ext

Rejected == [rejected |-> TRUE]

SchemeOk(url) == allowed_schemes.isNone \/ url.scheme \in allowed_schemes.val
DomainOk(url) == allowed_domains.isNone \/ url.netloc \in allowed_domains.val
FiletypeOk(url) == allowed_filetypes.isNone \/ suffix(url) \in allowed_filetypes.val

\* filter_url without the allowed_domains test
filter_url_NoDomainCheck(base, url) ==
    LET u == urldefrag(urljoin(base, url))
    IN  IF ~SchemeOk(u) THEN Rejected
        ELSE IF ~FiletypeOk(u) THEN Rejected
        ELSE u

\* UrlFilterer.filter_url: the normalised url, or Rejected for None
filter_url(base, url) ==
    LET u == urldefrag(urljoin(base, url))
    IN  IF ~SchemeOk(u) THEN Rejected
        ELSE IF ~DomainOk(u) THEN Rejected
        ELSE IF ~FiletypeOk(u) THEN Rejected
        ELSE u

\* UrlParser.handle_starttag over every <a href> of the document, as
\* Crawler.parse_links collects them
parse_links(base, hrefs) ==
    {filter_url(base, h) : h \in {g \in hrefs : filter_url(base, g) # Rejected}}

\* ------------------------------------------------------------- the web
\* What the Fetcher returns for an address: the final address (after
\* redirects) and the hrefs of the document.
Page(final, hrefs) == [final |-> final, hrefs |-> hrefs]
NoLinks == {}

WebChain == [u \in AllUrls |->
    IF u = A THEN Page(A, {Rel("/b")})
    ELSE IF u = B THEN Page(B, {RelFrag("/c", "top")})
    ELSE Page(u, NoLinks)]

WebCycle == [u \in AllUrls |->
    IF u = A THEN Page(A, {Rel("/b"), FragOnly("top")})
    ELSE IF u = B THEN Page(B, {A})
    ELSE Page(u, NoLinks)]

WebStar == [u \in AllUrls |->
    IF u = A THEN Page(A, {Rel("/b"), Rel("/c"), Rel("/d"), Rel("/e")})
    ELSE Page(u, NoLinks)]

WebScope == [u \in AllUrls |->
    IF u = A THEN Page(A, {RelFrag("/b", "s"), X, F, RelPng("/p"), ProtoRel("evil.example", "/x")})
    ELSE IF u = B THEN Page(B, {Rel("/c"), Rel("/a")})
    ELSE IF u = C THEN Page(X, {Rel("/d"), A})
    ELSE IF u = X THEN Page(X, {B, Rel("/d")})
    ELSE Page(u, NoLinks)]

Webs == {WebChain, WebCycle, WebStar, WebScope}
SeedChoices == {{}, {A}, {A, B}, {X}}

\* links a successful crawl of u proposes
LinksOf(w, u) == parse_links(w[u].final, w[u].hrefs)


\* --------------------------------------------------------------- state
Coord == 0
NoTask == Coord - 1
AllTasks == Coord..MaxWorkers
NoUrl == [none |-> TRUE]

VARIABLES
    web, start_urls, limit, num_workers,   \* the run's configuration
    todo,          \* asyncio.Queue contents (self.todo), head first
    unfinished,    \* the queue's unfinished-task count, read by join()
    seen, done, total,                     \* Crawler.seen, .done, .total
    pc,            \* where each task stands
    cur,           \* the task holding the event loop, or NoTask
    url,           \* process_one's local url, per worker
    links,         \* the set a task is proposing / still has to put
    exc,           \* the exception propagating in a worker, or "none"
    cancelReq,     \* Task.cancel() was called and is not yet delivered
    joinWoken,     \* the coordinator's wait in join() was released
    enq, taken,    \* history: how often each address was put / taken
    failed         \* history: addresses whose pipeline raised

vars == <<web, start_urls, limit, num_workers, todo, unfinished, seen, done,
          total, pc, cur, url, links, exc, cancelReq, joinWoken, enq, taken, failed>>

config == <<web, start_urls, limit, num_workers>>
Workers == 1..num_workers

\* Crawler.__init__ and the call of run() by main()
Init ==
    /\ web \in Webs
    /\ start_urls \in SeedChoices
    /\ limit \in 0..MaxLimit
    /\ num_workers \in 0..MaxWorkers
    /\ todo = <<>>
    /\ unfinished = 0
    /\ seen = {}
    /\ done = {}
    /\ total = 0
    /\ pc = [t \in AllTasks |-> IF t = Coord THEN "seed" ELSE "none"]
    /\ cur = Coord
    /\ url = [t \in AllTasks |-> NoUrl]
    /\ links = [t \in AllTasks |-> IF t = Coord THEN start_urls ELSE {}]
    /\ exc = [t \in AllTasks |-> "none"]
    /\ cancelReq = [t \in AllTasks |-> FALSE]
    /\ joinWoken = FALSE
    /\ enq = [u \in AllUrls |-> 0]
    /\ taken = [u \in AllUrls |-> 0]
    /\ failed = {}

\* ------------------------------------------------------ admission control
\* on_found_links without the subtraction of seen
NewLinks_NoDedup(urls, seenSet) == urls

\* on_found_links: new = urls - self.seen
NewLinks(urls, seenSet) == urls \ seenSet

\* put_todo testing total > limit, and testing one too early
BudgetReached_Strict(tot, lim) == tot > lim
BudgetReached_OffByOne(tot, lim) == tot + 1 >= lim

\* put_todo: if self.total >= self.limit: return
BudgetReached(tot, lim) == tot >= lim

\* a put that is not counted, and a task_done() that is never made
AfterPut_NoCount(n) == n
AfterTaskDone_Missing(n) == n

\* asyncio.Queue.put_nowait: _unfinished_tasks += 1
AfterPut(n) == n + 1

\* asyncio.Queue.task_done: _unfinished_tasks -= 1
AfterTaskDone(n) == n - 1

\* where a task goes on when on_found_links returns
AfterFound(t) == IF t = Coord THEN "spawn" ELSE "doneadd"

\* on_found_links, lines 128-129: subtract seen, update seen, enter the loop
on_found_links(t) ==
    /\ cur = t
    /\ pc[t] \in {"seed", "found"}
    /\ LET new == NewLinks(links[t], seen)
       IN  /\ seen' = seen \cup new
           /\ links' = [links EXCEPT ![t] = new]
           /\ pc' = [pc EXCEPT ![t] = IF new = {} THEN AfterFound(t) ELSE "put"]
    /\ UNCHANGED <<config, todo, unfinished, done, total, cur, url, exc,
                   cancelReq, joinWoken, enq, taken, failed>>

\* a put that finds the queue full and suspends the caller
HolderAfterPut_Suspends(t) == NoTask

\* put_todo, line 144: await self.todo.put(url); the queue was built as
\* asyncio.Queue() (line 75, no maxsize), so put never waits and the caller
\* still holds the event loop afterwards
HolderAfterPut(t) == t

\* one iteration of "for url in new: await self.put_todo(url)"; the set is
\* iterated in an arbitrary order.  put() on an unbounded queue never
\* suspends, so the task keeps the event loop.
put_todo(t) ==
    /\ cur = t
    /\ pc[t] = "put"
    /\ \E u \in links[t] :
        /\ IF BudgetReached(total, limit)
           THEN UNCHANGED <<total, todo, unfinished, enq, cur>>
           ELSE /\ total' = total + 1
                /\ todo' = Append(todo, u)
                /\ unfinished' = AfterPut(unfinished)
                /\ enq' = [enq EXCEPT ![u] = @ + 1]
                /\ cur' = HolderAfterPut(t)
        /\ links' = [links EXCEPT ![t] = @ \ {u}]
        /\ pc' = [pc EXCEPT ![t] = IF links[t] = {u} THEN AfterFound(t) ELSE "put"]
    /\ UNCHANGED <<config, seen, done, url, exc, cancelReq, joinWoken,
                   taken, failed>>

\* ------------------------------------------------------------ coordinator
\* run, line 88: create the worker tasks (scheduled, not yet started)
spawn ==
    /\ cur = Coord
    /\ pc[Coord] = "spawn"
    /\ pc' = [t \in AllTasks |->
                IF t = Coord THEN "join_call"
                ELSE IF t \in Workers THEN "start" ELSE pc[t]]
    /\ UNCHANGED <<config, todo, unfinished, seen, done, total, cur, url, links,
                   exc, cancelReq, joinWoken, enq, taken, failed>>

\* run() not waiting for the queue to drain
JoinMustWait_Never(n) == FALSE

\* asyncio.Queue.join: if self._unfinished_tasks > 0: await self._finished.wait()
JoinMustWait(n) == n > 0

\* run, line 89: await self.todo.join()
join_call ==
    /\ cur = Coord
    /\ pc[Coord] = "join_call"
    /\ IF JoinMustWait(unfinished)
       THEN /\ pc' = [pc EXCEPT ![Coord] = "join"]
            /\ cur' = NoTask
       ELSE /\ pc' = [pc EXCEPT ![Coord] = "cancel"]
            /\ cur' = cur
    /\ joinWoken' = FALSE
    /\ UNCHANGED <<config, todo, unfinished, seen, done, total, url, links, exc,
                   cancelReq, enq, taken, failed>>

\* the event _finished was set: join() returns
join_return ==
    /\ cur = NoTask
    /\ pc[Coord] = "join"
    /\ joinWoken
    /\ pc' = [pc EXCEPT ![Coord] = "cancel"]
    /\ cur' = Coord
    /\ UNCHANGED <<config, todo, unfinished, seen, done, total, url, links, exc,
                   cancelReq, joinWoken, enq, taken, failed>>

\* a task that has finished cannot be cancelled (Task.cancel returns False)
Cancellable(p) == p \notin {"none", "exited", "crashed"}

\* run, lines 91-92: for worker in workers: worker.cancel(); run() returns
cancel_workers ==
    /\ cur = Coord
    /\ pc[Coord] = "cancel"
    /\ cancelReq' = [t \in AllTasks |-> t \in Workers /\ Cancellable(pc[t])]
    /\ pc' = [pc EXCEPT ![Coord] = "returned"]
    /\ cur' = NoTask
    /\ UNCHANGED <<config, todo, unfinished, seen, done, total, url, links, exc,
                   joinWoken, enq, taken, failed>>


\* ----------------------------------------------------------------- workers
\* the first step of a worker task: worker() enters its loop and calls
\* process_one(), which calls todo.get()
worker_start(w) ==
    /\ cur = NoTask
    /\ pc[w] = "start"
    /\ ~cancelReq[w]
    /\ pc' = [pc EXCEPT ![w] = "get"]
    /\ cur' = w
    /\ UNCHANGED <<config, todo, unfinished, seen, done, total, url, links, exc,
                   cancelReq, joinWoken, enq, taken, failed>>

\* get_nowait of a LifoQueue: the newest item instead of the oldest
Take_Lifo(w) ==
    /\ url' = [url EXCEPT ![w] = todo[Len(todo)]]
    /\ todo' = SubSeq(todo, 1, Len(todo) - 1)
    /\ taken' = [taken EXCEPT ![todo[Len(todo)]] = @ + 1]
    /\ pc' = [pc EXCEPT ![w] = "sleep"]

\* asyncio.Queue.get_nowait, then crawl(url) up to its first await:
\* asyncio.sleep(rate_limit) suspends the worker
Take(w) ==
    /\ url' = [url EXCEPT ![w] = Head(todo)]
    /\ todo' = Tail(todo)
    /\ taken' = [taken EXCEPT ![Head(todo)] = @ + 1]
    /\ pc' = [pc EXCEPT ![w] = "sleep"]

\* process_one, line 102: url = await self.todo.get(); an empty queue
\* suspends the worker in get()
get_call(w) ==
    /\ cur = w
    /\ pc[w] = "get"
    /\ IF todo # <<>>
       THEN Take(w)
       ELSE /\ pc' = [pc EXCEPT ![w] = "blocked"]
            /\ UNCHANGED <<url, todo, taken>>
    /\ cur' = NoTask
    /\ UNCHANGED <<config, unfinished, seen, done, total, links, exc, cancelReq,
                   joinWoken, enq, failed>>

\* a worker suspended in get() is woken by a put and takes the item
get_resume(w) ==
    /\ cur = NoTask
    /\ pc[w] = "blocked"
    /\ ~cancelReq[w]
    /\ todo # <<>>
    /\ Take(w)
    /\ UNCHANGED <<config, unfinished, seen, done, total, cur, links, exc,
                   cancelReq, joinWoken, enq, failed>>

\* crawl, lines 114-115: the sleep is over; client.get is issued and suspends
sleep_done(w) ==
    /\ cur = NoTask
    /\ pc[w] = "sleep"
    /\ ~cancelReq[w]
    /\ pc' = [pc EXCEPT ![w] = "fetch"]
    /\ UNCHANGED <<config, todo, unfinished, seen, done, total, cur, url, links,
                   exc, cancelReq, joinWoken, enq, taken, failed>>

\* an except clause too narrow to match the pipeline's exceptions
Catches_Nothing(e) == FALSE

\* process_one, line 105: "except Exception" catches Exception and its
\* subclasses; asyncio.CancelledError is a BaseException and passes through
Catches(e) == e = "Exception"

\* done.add(url) reached on the exception path as well
AfterRaise_MarksDone(e) == "doneadd"

\* task_done() written after the try statement instead of in its finally
AfterRaise_NoFinally(e) == "get"

\* an exception e is raised inside crawl(url): to the except clause when it
\* matches, else straight to the finally clause
AfterRaise(e) == IF Catches(e) THEN "except" ELSE "task_done"

\* crawl, line 115: client.get returns a response or raises
fetch_return(w) ==
    /\ cur = NoTask
    /\ pc[w] = "fetch"
    /\ ~cancelReq[w]
    /\ \E ok \in BOOLEAN :
         IF ok
         THEN /\ pc' = [pc EXCEPT ![w] = "parse"]
              /\ UNCHANGED <<exc, failed>>
         ELSE /\ pc' = [pc EXCEPT ![w] = AfterRaise("Exception")]
              /\ exc' = [exc EXCEPT ![w] = "Exception"]
              /\ failed' = failed \cup {url[w]}
    /\ cur' = w
    /\ UNCHANGED <<config, todo, unfinished, seen, done, total, url, links,
                   cancelReq, joinWoken, enq, taken>>

\* crawl, line 117: parse_links on the response, or the extraction raises
parse(w) ==
    /\ cur = w
    /\ pc[w] = "parse"
    /\ \E ok \in BOOLEAN :
         IF ok
         THEN /\ pc' = [pc EXCEPT ![w] = "found"]
              /\ links' = [links EXCEPT ![w] = LinksOf(web, url[w])]
              /\ UNCHANGED <<exc, failed>>
         ELSE /\ pc' = [pc EXCEPT ![w] = AfterRaise("Exception")]
              /\ exc' = [exc EXCEPT ![w] = "Exception"]
              /\ failed' = failed \cup {url[w]}
              /\ UNCHANGED links
    /\ UNCHANGED <<config, todo, unfinished, seen, done, total, cur, url,
                   cancelReq, joinWoken, enq, taken>>

\* crawl, line 120: self.done.add(url); crawl returns into the finally clause
done_add(w) ==
    /\ cur = w
    /\ pc[w] = "doneadd"
    /\ done' = done \cup {url[w]}
    /\ pc' = [pc EXCEPT ![w] = "task_done"]
    /\ UNCHANGED <<config, todo, unfinished, seen, total, cur, url, links, exc,
                   cancelReq, joinWoken, enq, taken, failed>>

\* process_one, lines 105-107: the handler body is "pass"; what is left of
\* the exception afterwards
Handled(e) == "none"

handle_exception(w) ==
    /\ cur = w
    /\ pc[w] = "except"
    /\ exc' = [exc EXCEPT ![w] = Handled(exc[w])]
    /\ pc' = [pc EXCEPT ![w] = "task_done"]
    /\ UNCHANGED <<config, todo, unfinished, seen, done, total, cur, url, links,
                   cancelReq, joinWoken, enq, taken, failed>>

\* worker, lines 95-99: where the worker goes when process_one ends with
\* exception e: the loop goes round, CancelledError returns, anything else
\* ends the task
AfterProcessOne(e) ==
    IF e = "none" THEN "get"
    ELSE IF e = "CancelledError" THEN "exited"
    ELSE "crashed"

\* process_one, lines 108-109: finally: self.todo.task_done()
\* (asyncio raises ValueError when called too many times; reaching zero
\* sets the event join() waits on)
task_done(w) ==
    /\ cur = w
    /\ pc[w] = "task_done"
    /\ IF unfinished <= 0
       THEN /\ pc' = [pc EXCEPT ![w] = "crashed"]
            /\ cur' = NoTask
            /\ UNCHANGED <<unfinished, joinWoken>>
       ELSE /\ unfinished' = AfterTaskDone(unfinished)
            /\ joinWoken' = (joinWoken \/ (unfinished' = 0 /\ pc[Coord] = "join"))
            /\ pc' = [pc EXCEPT ![w] = AfterProcessOne(exc[w])]
            /\ cur' = IF exc[w] = "none" THEN w ELSE NoTask
    /\ exc' = [exc EXCEPT ![w] = "none"]
    /\ url' = [url EXCEPT ![w] = NoUrl]
    /\ UNCHANGED <<config, todo, seen, done, total, links, cancelReq, enq,
                   taken, failed>>

\* the event loop steps a cancelled worker: CancelledError is thrown in at
\* the await it is suspended on (or before its first step)
deliver_cancel(w) ==
    /\ cur = NoTask
    /\ cancelReq[w]
    /\ cancelReq' = [cancelReq EXCEPT ![w] = FALSE]
    /\ IF pc[w] \in {"sleep", "fetch"}
       THEN /\ pc' = [pc EXCEPT ![w] = AfterRaise("CancelledError")]
            /\ exc' = [exc EXCEPT ![w] = "CancelledError"]
            /\ cur' = w
       ELSE /\ pc' = [pc EXCEPT ![w] = AfterProcessOne("CancelledError")]
            /\ UNCHANGED <<exc, cur>>
    /\ UNCHANGED <<config, todo, unfinished, seen, done, total, url, links,
                   joinWoken, enq, taken, failed>>

\* ------------------------------------------------------------ specification
Next ==
    \/ \E t \in AllTasks : on_found_links(t)
    \/ \E t \in AllTasks : put_todo(t)
    \/ spawn
    \/ join_call
    \/ join_return
    \/ cancel_workers
    \/ \E w \in Workers : worker_start(w)
    \/ \E w \in Workers : get_call(w)
    \/ \E w \in Workers : get_resume(w)
    \/ \E w \in Workers : sleep_done(w)
    \/ \E w \in Workers : fetch_return(w)
    \/ \E w \in Workers : parse(w)
    \/ \E w \in Workers : done_add(w)
    \/ \E w \in Workers : handle_exception(w)
    \/ \E w \in Workers : task_done(w)
    \/ \E w \in Workers : deliver_cancel(w)

Spec == Init /\ [][Next]_vars

\* The event loop runs a callback whenever one is ready, and every sleep
\* and every fetch ends in finite time.
FairSpec == Spec /\ WF_vars(Next)

\* ------------------------------------------------------------- vocabulary
RECURSIVE SumOver(_, _)
SumOver(f, S) == IF S = {} THEN 0
                 ELSE LET u == CHOOSE v \in S : TRUE IN f[u] + SumOver(f, S \ {u})

\* the addresses reachable from the set S in the link graph of web w
RECURSIVE Closure(_, _)
Closure(w, S) ==
    LET T == S \cup UNION {LinksOf(w, u) : u \in S}
    IN  IF T = S THEN S ELSE Closure(w, T)

Reach == Closure(web, start_urls)

\* a worker stands between todo.get() and todo.task_done()
InPipeline(w) ==
    pc[w] \in {"sleep", "fetch", "parse", "found", "put", "doneadd", "except", "task_done"}

\* a worker is outside process_one's try block
Idle(w) == pc[w] \in {"none", "start", "blocked", "exited"}

CancelStarted == pc[Coord] \in {"cancel", "returned"}
Returned == pc[Coord] = "returned"
Stopped == Returned /\ \A w \in Workers : pc[w] = "exited"

\* what the allow-lists of main() accept, read off the configuration
Acceptable(u) ==
    /\ u.scheme \in allowed_schemes.val
    /\ u.netloc \in allowed_domains.val
    /\ u.ext \in allowed_filetypes.val
    /\ u.frag = ""

\* ------------------------------------------------------------------ claims

\* C1: every address is put into todo at most once over the run and is
\* taken by a worker (passed to crawl) at most once, whatever the
\* interleaving of the workers and the seeding call.
C1_AtMostOnce == \A u \in AllUrls : enq[u] <= 1 /\ taken[u] <= 1 /\ taken[u] <= enq[u]

\* two workers crawled pages that link to each other: each proposed an
\* address the other had already been given
C1_Witness ==
    /\ web = WebCycle /\ num_workers = 2 /\ start_urls = {A}
    /\ done = {A, B} /\ enq[A] = 1 /\ enq[B] = 1 /\ taken[A] = 1 /\ taken[B] = 1

\* C2: total never exceeds limit, and total is the number of addresses ever
\* put into todo.
C2_Budget == total <= limit /\ total = SumOver(enq, AllUrls)

\* the budget is exhausted and a discovered address had to be dropped
C2_Witness ==
    /\ limit = 2 /\ total = limit /\ Cardinality(seen) > total
    /\ \A t \in AllTasks : pc[t] # "put"

\* C3: with at least one worker, run() eventually returns from join(),
\* cancels the workers, and every worker exits.
C3_Termination == (num_workers >= 1) ~> Stopped

C3_Witness ==
    /\ Stopped /\ num_workers = 2 /\ web = WebStar /\ total = 3 /\ failed # {}

\* C4: when the coordinator cancels, join() has returned, todo is empty,
\* unfinished is 0, no worker is between get() and task_done() and no
\* on_found_links call is running; from then on nothing is admitted or
\* processed.
C4_AtCancel ==
    /\ CancelStarted => /\ todo = <<>>
                        /\ unfinished = 0
                        /\ \A w \in Workers : Idle(w)
    /\ \A w \in AllTasks : cancelReq[w] => (Returned /\ Idle(w))

C4_NoPrematureShutdown ==
    /\ []C4_AtCancel
    /\ [][CancelStarted => UNCHANGED <<seen, total, done, todo, enq, taken>>]_vars

\* the cancel is issued after a crawl that kept both workers busy
C4_Witness ==
    /\ pc[Coord] = "cancel" /\ num_workers = 2 /\ total = 3
    /\ \A w \in Workers : pc[w] = "blocked"

\* C5: unfinished equals the number of queued addresses plus the number of
\* workers between get() and task_done(), and is never negative.
C5_Outstanding ==
    /\ unfinished = Len(todo) + Cardinality({w \in Workers : InPipeline(w)})
    /\ unfinished >= 0

C5_Witness ==
    /\ Len(todo) = 1 /\ Cardinality({w \in Workers : InPipeline(w)}) = 2
    /\ unfinished = 3

\* C6: a worker whose fetch or extraction raised does not exit: it calls
\* task_done and goes back to get(); no worker ever ends except by the
\* coordinator's cancel; the other tasks are untouched by the failure; and
\* the run still terminates.
C6_Handling(w) ==
    /\ pc[w] = "except" => pc'[w] \in {"except", "task_done"}
    /\ (pc[w] = "task_done" /\ pc'[w] # "task_done") =>
            /\ pc'[w] = "get"
            /\ unfinished' = unfinished - 1
    /\ (pc[w] \in {"except", "task_done"}) =>
            \A t \in AllTasks \ {w} : pc'[t] = pc[t] /\ cancelReq'[t] = cancelReq[t]

C6_ErrorContainment ==
    /\ [](\A w \in Workers : /\ pc[w] # "crashed"
                             /\ pc[w] = "exited" => Returned)
    /\ [][\A w \in Workers : C6_Handling(w)]_vars
    /\ (failed # {} /\ num_workers >= 1) ~> Stopped

\* a worker whose address failed has gone on to crawl another one
C6_Witness ==
    \E w \in Workers : /\ failed = {A} /\ pc[w] = "doneadd" /\ url[w] = B
                       /\ num_workers = 1

\* C7: a failed address is not in done, was put once and taken once (no
\* retry), and the failure leaves seen, total, done and todo as they were.
C7_FailureStep ==
    (\E w \in Workers : url[w] \in failed \/ url[w] \in failed')
        => UNCHANGED <<seen, total, done, todo, enq, taken>>

C7_FailedOutcome ==
    /\ [](\A u \in failed : u \notin done /\ enq[u] = 1 /\ taken[u] = 1)
    /\ [][C7_FailureStep]_vars
    /\ [][total' >= total /\ seen \subseteq seen']_vars

\* the run ended with a failed address that stayed out of done
C7_Witness == Stopped /\ failed = {B} /\ done = {A, C} /\ total = 3

\* C8: without failures and with limit at least the number of reachable
\* addresses, when run() returns seen and done are exactly the reachable
\* addresses.
C8_FullCoverage ==
    (Returned /\ failed = {} /\ num_workers >= 1 /\ limit >= Cardinality(Reach))
        => (seen = Reach /\ done = Reach)

C8_Witness ==
    /\ Returned /\ failed = {} /\ web = WebChain /\ start_urls = {A}
    /\ limit = 3 /\ done = {A, B, C} /\ seen = {A, B, C}

\* C9: without failures, when more addresses are reachable than limit,
\* exactly limit addresses have been admitted when run() returns, and the
\* run does terminate.
C9_AtReturn ==
    (Returned /\ failed = {} /\ num_workers >= 1 /\ Cardinality(Reach) > limit)
        => (total = limit /\ SumOver(enq, AllUrls) = limit)

C9_BudgetCutoff ==
    /\ []C9_AtReturn
    /\ (num_workers >= 1 /\ Cardinality(Reach) > limit) ~> Stopped

C9_Witness ==
    /\ Stopped /\ failed = {} /\ web = WebStar /\ start_urls = {A} /\ limit = 3
    /\ total = 3 /\ Cardinality(seen) = 5 /\ Cardinality(done) = 3

\* C10: an address the filter rejects is never proposed by a crawl, so it
\* enters seen, todo and crawl() only if it was a start address.
C10_ScopeFiltered ==
    /\ \A w \in Workers : pc[w] \in {"found", "put"} =>
            \A u \in links[w] : Acceptable(u)
    /\ \A u \in AllUrls \ start_urls :
            (u \in seen \/ enq[u] > 0 \/ taken[u] > 0) => Acceptable(u)

\* the page with the out-of-scope links was crawled
C10_Witness ==
    /\ web = WebScope /\ start_urls = {A} /\ A \in done /\ B \in seen
    /\ X \notin seen /\ F \notin seen /\ P \notin seen

\* C11: with a worker count of zero or less the run reports a configuration
\* error before it starts: no address is seeded and run() goes no further
\* than its first statement.
C11_ConfigErrorUpFront ==
    num_workers <= 0 => (pc[Coord] = "seed" /\ seen = {} /\ total = 0 /\ todo = <<>>)

\* C12: whenever run() has returned, every worker task has already finished.
C12_ReturnAfterWorkersExit ==
    Returned => \A w \in Workers : pc[w] = "exited"

\* C13: when the run is stopped, every address in seen is one the scope
\* filter accepts, whatever the start addresses were.
C13_SeenInScope ==
    Stopped => \A u \in seen : Acceptable(u)

\* C14: an on_found_links call runs to completion without any other task
\* stepping in between: while a task is inside the call's loop it holds the
\* event loop, and every step taken leaves the other tasks and seen alone.
C14_CallInProgress(t) == pc[t] = "put"

C14_NoInterleaving ==
    \A t \in AllTasks : C14_CallInProgress(t) =>
        /\ seen' = seen
        /\ \A s \in AllTasks \ {t} : pc'[s] = pc[s] /\ links'[s] = links[s]

C14_AtomicAdmission ==
    /\ [](\A t \in AllTasks : C14_CallInProgress(t) => cur = t)
    /\ [][C14_NoInterleaving]_vars

\* a worker is in the middle of its call, one address put and one to go,
\* while the other worker is suspended in its own crawl
C14_Witness ==
    \E t, s \in Workers :
        /\ t # s /\ pc[t] = "put" /\ pc[s] \in {"sleep", "fetch"}
        /\ Cardinality(links[t]) = 1 /\ Len(todo) >= 1

\* C15: once total = limit nothing is put into todo any more; an address
\* dropped for the budget is in seen but is never put, taken or added to
\* done afterwards, even when a later crawl finds it again.
C15_Dropped(u) ==
    /\ u \in seen
    /\ enq[u] = 0
    /\ \A t \in AllTasks : ~(pc[t] = "put" /\ u \in links[t])

C15_Step ==
    /\ total = limit => (total' = total /\ enq' = enq /\ Len(todo') <= Len(todo))
    /\ \A u \in AllUrls : C15_Dropped(u) => C15_Dropped(u)'

C15_BudgetFinal ==
    /\ [](\A u \in AllUrls : C15_Dropped(u) =>
            (total = limit /\ taken[u] = 0 /\ u \notin done))
    /\ [][C15_Step]_vars

\* A was dropped when the budget ran out and was found again by the crawl
\* of C, which ran to its end
C15_Witness ==
    /\ web = WebScope /\ start_urls = {X} /\ limit = 3 /\ total = 3
    /\ C15_Dropped(A) /\ done = {X, B, C} /\ Stopped

\* C16: a worker that took an address calls task_done exactly once before
\* its next get(), on the success path and on every failure path, and
\* task_done is never called by a worker that has not taken an address.
\* (A worker is in the pipeline from its get() to its task_done().)
C16_Step ==
    /\ \A w \in Workers :
        /\ (InPipeline(w) /\ ~InPipeline(w)') => unfinished' = unfinished - 1
        /\ (~InPipeline(w) /\ InPipeline(w)') =>
                (todo # <<>> /\ url'[w] = Head(todo) /\ todo' = Tail(todo))
        /\ (pc[w] = "task_done" /\ pc'[w] # "task_done") => ~InPipeline(w)'
    /\ unfinished' < unfinished =>
        /\ unfinished' = unfinished - 1
        /\ \E w \in Workers : pc[w] = "task_done" /\ ~InPipeline(w)'

C16_TaskDoneOncePerGet ==
    /\ [](\A w \in Workers : pc[w] \in {"get", "blocked"} => url[w] = NoUrl)
    /\ [][C16_Step]_vars

\* the worker's first address failed, its second succeeded, and it has
\* taken a third: two completed get/task_done pairs, one on each path
C16_Witness ==
    /\ num_workers = 1 /\ failed = {A} /\ done = {B} /\ pc[1] = "sleep"
    /\ url[1] = C /\ unfinished = 1

\* C17: the frontier is first in, first out: every put appends at the tail
\* of todo, every get takes its head, and todo changes in no other way; so
\* an address put before another is taken before it.
C17_Step ==
    /\ \A u \in AllUrls : enq'[u] > enq[u] => todo' = Append(todo, u)
    /\ \A u \in AllUrls : taken'[u] > taken[u] =>
            (todo # <<>> /\ u = Head(todo) /\ todo' = Tail(todo))
    /\ todo' # todo => \E u \in AllUrls : enq'[u] > enq[u] \/ taken'[u] > taken[u]

C17_Fifo == [][C17_Step]_vars

\* three addresses were put; the first two have been taken in turn while
\* the third still waits
C17_Witness ==
    /\ web = WebStar /\ num_workers = 1 /\ total = 3 /\ Len(todo) = 1
    /\ done = {A} /\ pc[1] = "sleep" /\ url[1] # A

\* C18: done is a subset of the addresses ever put into todo, which is a
\* subset of seen; so |done| <= total <= limit; and seen never shrinks.
C18_Enqueued == {u \in AllUrls : enq[u] > 0}

C18_Sets ==
    /\ done \subseteq C18_Enqueued
    /\ C18_Enqueued \subseteq seen
    /\ Cardinality(done) <= total
    /\ total <= limit

C18_Containment ==
    /\ []C18_Sets
    /\ [][seen \subseteq seen']_vars

\* the three sets differ: one address done, one more admitted, others only seen
C18_Witness ==
    /\ Cardinality(done) = 1 /\ Cardinality(C18_Enqueued) = 2
    /\ Cardinality(seen) = 5 /\ total = limit

\* C19: for every address in done, every in-scope link of its document is
\* in seen.
C19_LinkClosure ==
    \A u \in done : LinksOf(web, u) \subseteq seen

\* B is done; of its two links one was already seen and one was dropped
\* for the budget, and both are in seen
C19_Witness ==
    /\ web = WebScope /\ start_urls = {A} /\ limit = 2 /\ B \in done
    /\ LinksOf(web, B) = {A, C} /\ enq[C] = 0 /\ {A, C} \subseteq seen

\* C20: an on_found_links call whose addresses are all in seen changes
\* nothing but the caller's position, and after any call its addresses are
\* all in seen; so proposing a batch a second time has no effect.
C20_Calling(t) == cur = t /\ pc[t] \in {"seed", "found"}

C20_Step ==
    \A t \in AllTasks : C20_Calling(t) =>
        /\ links[t] \subseteq seen'
        /\ links[t] \subseteq seen =>
              /\ UNCHANGED <<seen, total, todo, unfinished, enq, done>>
              /\ pc'[t] = AfterFound(t)

C20_ReproposeNoOp == [][C20_Step]_vars

\* the crawl of B proposed {A}, already seen, and the call returned at once
C20_Witness ==
    \E w \in Workers :
        /\ web = WebCycle /\ start_urls = {A} /\ limit = 3
        /\ pc[w] = "doneadd" /\ url[w] = B /\ LinksOf(web, B) = {A}
        /\ enq[A] = 1 /\ total = 2 /\ todo = <<>>

====
